---- MODULE Spec2Model ----
(***************************************************************************)
(* The morph / regression engine of mita-viz: the UnifiedViz component     *)
(* (three requestAnimationFrame drivers and the D3 render effect), driven  *)
(* by the scroll steps of ScrollyStory.                                    *)
(*                                                                         *)
(* Numbers.  JavaScript numbers are modelled in fixed point: a scalar in   *)
(* [0,1] (progress, zoom, opacity, eased t) is an integer number of        *)
(* thousandths (Scale = 1.0); times are milliseconds; pixels, kilometres   *)
(* and degrees are integers.  Divisions round towards minus infinity.      *)
(***************************************************************************)
EXTENDS Integers, Sequences, FiniteSets, TLC

Scale == 10 * 100

NULL == 0 - 999999

Min(a, b) == IF a <= b THEN a ELSE b

(***************************************************************************)
(* Bounds of the model.                                                    *)
(***************************************************************************)
\* number of onStepEnter events explored
MaxUpdates == 2

\* wall-clock granularity: the clock advances in steps of FrameGap ms
FrameGap == 600

(***************************************************************************)
(* constants.ts                                                            *)
(***************************************************************************)
morphDuration == 3000

zoomDuration == 1500

borderDuration == 400

DEFAULT_DIMENSIONS == [width |-> 700, height |-> 500]

DEFAULT_MARGIN == [top |-> 40, right |-> 30, bottom |-> 50, left |-> 60]

\* MORPH_TIMING, in thousandths of morphProgress
MORPH_TIMING == [start |-> 200, end |-> 900, dotFadeStart |-> 200, dotFadeEnd |-> 800]

\* OPACITY.dot, in thousandths
OPACITY_dot == 800

OutcomeType == {"consumption", "stunting", "roads"}

ScatterPhase == {"dots", "ols", "naive-effect", "effect"}

(***************************************************************************)
(* ScrollyStory: the scroll steps that produce UnifiedViz's props.         *)
(***************************************************************************)
StepOf(p, o, sd, ph, z, h) ==
    [morphProgress |-> p, outcome |-> o, showDistricts |-> sd,
     scatterPhase |-> ph, zoomLevel |-> z, highlightMode |-> h]

mainSteps ==
    << StepOf(0, "stunting", FALSE, "dots", "peru", "mita-only"),
       StepOf(0, "stunting", FALSE, "dots", "mita", "none"),
       StepOf(0, "stunting", TRUE, "dots", "mita", "none"),
       StepOf(0, "stunting", TRUE, "dots", "mita", "boundary"),
       StepOf(Scale, "stunting", TRUE, "dots", "mita", "none"),
       StepOf(Scale, "stunting", TRUE, "dots", "mita", "none"),
       StepOf(Scale, "stunting", TRUE, "ols", "mita", "none"),
       StepOf(Scale, "stunting", TRUE, "naive-effect", "mita", "none"),
       StepOf(Scale, "stunting", TRUE, "effect", "mita", "none"),
       StepOf(Scale, "consumption", TRUE, "effect", "mita", "none"),
       StepOf(Scale, "roads", TRUE, "effect", "mita", "none"),
       StepOf(Scale, "roads", TRUE, "effect", "mita", "none") >>

(***************************************************************************)
(* The three animated scalars of UnifiedViz.  current[d] is the React      *)
(* state (currentProgress, currentZoom, borderOpacity), ref[d] the         *)
(* matching useRef (animationRef, zoomAnimationRef, borderAnimationRef).   *)
(***************************************************************************)
Drivers == {"progress", "zoom", "border"}

Duration(d) ==
    CASE d = "progress" -> morphDuration
      [] d = "zoom" -> zoomDuration
      [] d = "border" -> borderDuration

\* the target each effect derives from the props
Target(d, props) ==
    CASE d = "progress" -> props.morphProgress
      [] d = "zoom" -> IF props.zoomLevel = "peru" THEN 0 ELSE Scale
      [] d = "border" -> IF props.showDistricts THEN Scale ELSE 0

VARIABLES
    currentStepIndex,     \* ScrollyStory state (1-based index into mainSteps)
    updates,              \* number of onStepEnter events so far
    now,                  \* performance.now()
    current,              \* [Drivers -> thousandths]
    ref,                  \* [Drivers -> handle of the last frame request, 0 = null]
    rafQueue,             \* the browser's pending animation-frame callbacks
    currentOutcome,       \* useState(outcome)
    prevScatterPhaseRef,
    prevOutcomeRef,
    tooltip,              \* useState<TooltipData | null>: hovered ubigeo, 0 = null
    dom,                  \* the persistent SVG elements
    render,               \* what the last run of the main render effect computed
    calc                  \* one application of a data / regression utility: input and result

vars == << currentStepIndex, updates, now, current, ref, rafQueue, currentOutcome,
           prevScatterPhaseRef, prevOutcomeRef, tooltip, dom, render, calc >>

\* the state of the mounted component
viewVars == << currentStepIndex, updates, now, current, ref, rafQueue, currentOutcome,
               prevScatterPhaseRef, prevOutcomeRef, tooltip, dom, render >>

\* no utility applied yet
NoCalc == [op |-> "none"]

props == mainSteps[currentStepIndex]

(***************************************************************************)
(* AnimationDriver: the body of one `animate` frame callback.              *)
(***************************************************************************)
\* variant: the elapsed fraction is not capped at 1
AnimT_uncapped(elapsed, duration) == (elapsed * Scale) \div duration

\* t = Math.min(elapsed / duration, 1)
AnimT(elapsed, duration) == Min((elapsed * Scale) \div duration, Scale)

\* variant: ease-out quadratic, 1 - (1 - t)^2
easeOutQuad(t) == Scale - ((Scale - t) * (Scale - t)) \div Scale

\* t < 0.5 ? 2 * t * t : 1 - Math.pow(-2 * t + 2, 2) / 2
easeInOutQuad(t) ==
    IF 2 * t < Scale
    THEN (2 * t * t) \div Scale
    ELSE Scale - (((2 * Scale - 2 * t) * (2 * Scale - 2 * t)) \div (2 * Scale))

\* startProgress + (targetProgress - startProgress) * eased
Lerp(from, to, eased) == from + ((to - from) * eased) \div Scale

\* the value a callback reports at frame timestamp `time`
FrameValue(cb, time) ==
    Lerp(cb.from, cb.to, easeInOutQuad(AnimT(time - cb.startTime, Duration(cb.driver))))

\* variant: the callback never requests another frame
Reschedules_never(cb, time) == FALSE

\* if (t < 1) requestAnimationFrame(animate)
Reschedules(cb, time) == AnimT(time - cb.startTime, Duration(cb.driver)) < Scale

(***************************************************************************)
(* requestAnimationFrame / cancelAnimationFrame.  A handle is unique among *)
(* the pending callbacks and the handles still held in a ref.              *)
(***************************************************************************)
Handles == 1 .. (4 * Cardinality(Drivers))

NewHandle(queue, refs) ==
    LET used == {cb.handle : cb \in queue} \cup {refs[d] : d \in Drivers}
        free == Handles \ used
    IN  CHOOSE h \in free : \A g \in free : h <= g

\* variant: the request is not cancelled
cancelAnimationFrame_kept(queue, handle) == queue

cancelAnimationFrame(queue, handle) == {cb \in queue : cb.handle # handle}

\* variant: one shared ref and request for all three scalars
RestartAnimation_shared(d, from, to, time, st) ==
    LET h == NewHandle({}, st.ref)
        cb == [handle |-> h, driver |-> d, from |-> from, to |-> to, startTime |-> time]
    IN  [queue |-> {cb}, ref |-> [e \in Drivers |-> h]]

\* one run of an animation effect for driver d (dependency [prop] changed):
\* the previous effect's cleanup, then the effect body
RestartAnimation(d, from, to, time, st) ==
    LET \* cleanup: if (animationRef.current) cancelAnimationFrame(animationRef.current)
        q1 == IF st.ref[d] # 0 THEN cancelAnimationFrame(st.queue, st.ref[d]) ELSE st.queue
        \* body: if (animationRef.current) cancelAnimationFrame(animationRef.current)
        q2 == IF st.ref[d] # 0 THEN cancelAnimationFrame(q1, st.ref[d]) ELSE q1
        \* animationRef.current = requestAnimationFrame(animate)
        h == NewHandle(q2, st.ref)
        cb == [handle |-> h, driver |-> d, from |-> from, to |-> to, startTime |-> time]
    IN  [queue |-> q2 \cup {cb}, ref |-> [st.ref EXCEPT ![d] = h]]

\* variant: a restarted interpolation starts from the old target
RunAnimationEffects_fromTarget(old, new, cur, time, st) ==
    LET step(d, s) == IF Target(d, new) # Target(d, old)
                      THEN RestartAnimation(d, Target(d, old), Target(d, new), time, s)
                      ELSE s
    IN  step("border", step("zoom", step("progress", st)))

\* the effects run in declaration order; each only when its prop changed
RunAnimationEffects(old, new, cur, time, st) ==
    LET step(d, s) == IF Target(d, new) # Target(d, old)
                      THEN RestartAnimation(d, cur[d], Target(d, new), time, s)
                      ELSE s
    IN  step("border", step("zoom", step("progress", st)))

\* the browser runs the callbacks that were pending when the frame began;
\* a callback whose t < 1 requests the next frame
RECURSIVE RunCallbacks(_, _, _)
RunCallbacks(todo, time, st) ==
    IF todo = {} THEN st
    ELSE LET cb == CHOOSE c \in todo : \A e \in todo : c.handle <= e.handle
             rest == todo \ {cb}
             h == NewHandle(st.queue \cup todo, st.ref)
             next == IF Reschedules(cb, time)
                     THEN [queue |-> st.queue \cup {[cb EXCEPT !.handle = h]},
                           ref |-> [st.ref EXCEPT ![cb.driver] = h]]
                     ELSE st
         IN  RunCallbacks(rest, time, next)

\* the value each setCurrentProgress / setCurrentZoom / setBorderOpacity leaves:
\* with several callbacks on one scalar the one registered last writes last
FrameValues(queue, time, cur) ==
    [d \in Drivers |->
        LET mine == {cb \in queue : cb.driver = d}
        IN  IF mine = {} THEN cur[d]
            ELSE LET last == CHOOSE c \in mine : \A e \in mine :
                                 \/ c.startTime > e.startTime
                                 \/ (c.startTime = e.startTime /\ c.handle >= e.handle)
                 IN  FrameValue(last, time)]

(***************************************************************************)
(* Data.  districtPolygons.json and mitaData.json are loaded once; a small *)
(* sample stands for them.  Distances are km, outcome magnitudes are in    *)
(* hundredths, longitudes in degrees.                                      *)
(***************************************************************************)
Units == 1 .. 6

\* ubigeo |-> polygon record: treatment flag and centroid longitude
districtPolygons ==
    [u \in Units |->
        CASE u = 1 -> [mita |-> 1, lon |-> -71]
          [] u = 2 -> [mita |-> 0, lon |-> -76]
          [] u = 3 -> [mita |-> 1, lon |-> -70]
          [] u = 4 -> [mita |-> 0, lon |-> -74]
          [] u = 5 -> [mita |-> 1, lon |-> -72]
          [] u = 6 -> [mita |-> 0, lon |-> -73]]

\* units with an outcome record (unit 5 has none)
OutcomeUnits == {1, 2, 3, 4, 6}

mitaData ==
    [u \in OutcomeUnits |->
        CASE u = 1 -> [distance |-> 10, isInside |-> TRUE,
                       consumption |-> 550, stunting |-> 40, roads |-> 5000]
          [] u = 2 -> [distance |-> 80, isInside |-> FALSE,
                       consumption |-> NULL, stunting |-> 30, roads |-> 2000]
          [] u = 3 -> [distance |-> -20, isInside |-> TRUE,
                       consumption |-> 600, stunting |-> NULL, roads |-> 0]
          [] u = 4 -> [distance |-> NULL, isInside |-> FALSE,
                       consumption |-> 500, stunting |-> 50, roads |-> 3000]
          [] u = 6 -> [distance |-> -30, isInside |-> FALSE,
                       consumption |-> 580, stunting |-> 35, roads |-> NULL]]

\* outcome?.field ?? fallback
mergeData ==
    [u \in Units |->
        LET poly == districtPolygons[u]
            has == u \in OutcomeUnits
        IN  [ubigeo |-> u,
             mita |-> poly.mita,
             centroidLon |-> poly.lon,
             distance |-> IF has THEN mitaData[u].distance ELSE NULL,
             isInside |-> IF has THEN mitaData[u].isInside ELSE poly.mita = 1,
             consumption |-> IF has THEN mitaData[u].consumption ELSE NULL,
             stunting |-> IF has THEN mitaData[u].stunting ELSE NULL,
             roads |-> IF has THEN mitaData[u].roads ELSE NULL]]

mergedData == mergeData

Abs(x) == IF x < 0 THEN -x ELSE x

\* variant: the stored sign of the distance is trusted
flippedDistance_signed(d) == IF d.isInside THEN d.distance ELSE -d.distance

\* d.isInside ? Math.abs(d.distance) : -Math.abs(d.distance)
flippedDistance(d) == IF d.isInside THEN Abs(d.distance) ELSE -Abs(d.distance)

\* the units filterScatterData keeps for an outcome
filterScatterData(data, outcome) ==
    {u \in DOMAIN data :
        LET value == data[u][outcome]
        IN  data[u].distance # NULL /\ value # NULL /\ value > 0}

\* the units getAllScatterData keeps
getAllScatterData(data) ==
    {u \in DOMAIN data :
        /\ data[u].distance # NULL
        /\ \/ (data[u].stunting # NULL /\ data[u].stunting > 0)
           \/ (data[u].consumption # NULL /\ data[u].consumption > 0)
           \/ (data[u].roads # NULL /\ data[u].roads > 0)}

\* getOutcomeY(d, outcome) !== null, on the records of getAllScatterData
hasOutcomeY(data, u, outcome) == data[u][outcome] # NULL /\ data[u][outcome] > 0

(***************************************************************************)
(* Scales and projection (x axis).                                         *)
(***************************************************************************)
innerWidth == DEFAULT_DIMENSIONS.width - DEFAULT_MARGIN.left - DEFAULT_MARGIN.right

\* d3.scaleLinear().domain([-50, 50]).range([0, innerWidth]) : not clamped
xScale(x) == ((x + 50) * innerWidth) \div 100

\* the two views geoMercator().fitSize yields (center in degrees, scale in
\* pixels per degree, translate in pixels)
peruProjection == [center |-> -75, scale |-> 12, translate |-> 305]

mitaProjection == [center |-> -72, scale |-> 60, translate |-> 305]

\* createProjection: center, scale and translate interpolated by currentZoom,
\* then applied to a longitude (the Mercator x is linear in the longitude)
createProjection(z, lon) ==
    LET center1000 == peruProjection.center * Scale
                        + (mitaProjection.center - peruProjection.center) * z
        scale == peruProjection.scale
                        + ((mitaProjection.scale - peruProjection.scale) * z) \div Scale
        translate == peruProjection.translate
                        + ((mitaProjection.translate - peruProjection.translate) * z) \div Scale
    IN  translate + (scale * (lon * Scale - center1000)) \div Scale

(***************************************************************************)
(* The persistent SVG elements.  dom.dots maps the ubigeo of every         *)
(* circle.morph-dot in the document to its attributes, dom.layers maps the *)
(* class of every fit-line / effect-annotation element in the document to  *)
(* its content; a transitioned attribute holds the value its transition    *)
(* ends at.  cy is kept symbolically: "blend" (map to scatter), an outcome *)
(* (yScale of that outcome's value) or "mid" (innerHeight / 2).  r and     *)
(* opacity are thousandths.                                                *)
(***************************************************************************)
NoElements == [k \in {} |-> 0]

EmptyDom == [dots |-> NoElements, layers |-> NoElements]

Layers == {"inside-line", "outside-line", "effect-line", "effect-label-rect",
           "effect-label-text"}

\* progress below which the map is drawn (t < 0.3)
MapEnd == (3 * Scale) \div 10

\* Math.min((t - MORPH_TIMING.start) / (MORPH_TIMING.end - MORPH_TIMING.start), 1)
MorphT(t) ==
    Min(((t - MORPH_TIMING.start) * Scale) \div (MORPH_TIMING.end - MORPH_TIMING.start), Scale)

\* variant: every render removes everything
ClearElements_all(d, shouldPreserveElements, isAtFullScatter) == EmptyDom

\* svg.selectAll('*:not(.morph-dot):not(.inside-line)...').remove() keeps the
\* persistent elements; svg.selectAll('*').remove() removes everything
ClearElements(d, shouldPreserveElements, isAtFullScatter) ==
    IF shouldPreserveElements \/ isAtFullScatter THEN d ELSE EmptyDom

\* The keyed join selectAll('.morph-dot').data(scatterData, d => d.ubigeo)
\* .join(enter, update, exit => exit.remove()) leaves one circle per unit of
\* scatterData (kept if it existed, appended otherwise); the attributes are set
\* on entering and updated circles alike.
renderMorphingDots(dots, scatterUnits, morphT, easedMorphT, zoom) ==
    IF morphT <= MORPH_TIMING.dotFadeStart THEN dots
    ELSE LET dotOpacity ==
                 Min(Scale, ((morphT - MORPH_TIMING.dotFadeStart) * Scale)
                              \div (MORPH_TIMING.dotFadeEnd - MORPH_TIMING.dotFadeStart))
             attrs(u) ==
                 LET mapX == createProjection(zoom, mergedData[u].centroidLon)
                     scatterX == xScale(flippedDistance(mergedData[u]))
                 IN  [cx |-> mapX + ((scatterX - mapX) * easedMorphT) \div Scale,
                      cy |-> "blend",
                      r |-> 5 * easedMorphT,
                      opacity |-> (dotOpacity * OPACITY_dot) \div Scale]
         IN  [u \in scatterUnits |-> attrs(u)]

\* variant: a thousandth of the map-space offset is left in cx
renderFullScatterDots_offset(dots, scatterUnits, outcome) ==
    LET attrs(u) ==
            LET mapX == createProjection(Scale, mergedData[u].centroidLon)
                scatterX == xScale(flippedDistance(mergedData[u]))
            IN  [cx |-> scatterX + (mapX - scatterX) \div Scale,
                 cy |-> outcome,
                 r |-> 5 * Scale,
                 opacity |-> OPACITY_dot]
    IN  [u \in scatterUnits |-> attrs(u)]

renderFullScatterDots(dots, scatterUnits, outcome) ==
    LET attrs(u) == [cx |-> xScale(flippedDistance(mergedData[u])),
                     cy |-> outcome,
                     r |-> 5 * Scale,
                     opacity |-> OPACITY_dot]
    IN  [u \in scatterUnits |-> attrs(u)]

\* joined on allScatterData: enter creates the circle at its scatter x, update
\* only transitions cy and opacity, exit fades out and removes
renderOutcomeTransition(dots, allUnits, outcome) ==
    [u \in allUnits |->
        LET hasY == hasOutcomeY(mergedData, u, outcome)
            cy == IF hasY THEN outcome ELSE "mid"
            opacity == IF hasY THEN OPACITY_dot ELSE 0
        IN  IF u \notin DOMAIN dots
            THEN [cx |-> xScale(flippedDistance(mergedData[u])), cy |-> cy,
                  r |-> 5 * Scale, opacity |-> opacity]
            ELSE [dots[u] EXCEPT !.cy = cy, !.opacity = opacity]]

renderMorph(dots, morphT, outcome, zoom, isOutcomeTransition, isPhaseTransition) ==
    LET easedMorphT == easeInOutQuad(morphT)
        scatterUnits == filterScatterData(mergedData, outcome)
    IN  IF morphT >= Scale /\ isOutcomeTransition
        THEN renderOutcomeTransition(dots, getAllScatterData(mergedData), outcome)
        ELSE IF morphT >= Scale /\ isPhaseTransition
        THEN dots
        ELSE IF morphT < Scale
        THEN renderMorphingDots(dots, scatterUnits, morphT, easedMorphT, zoom)
        ELSE renderFullScatterDots(dots, scatterUnits, outcome)

showOLS(scatterPhase) == scatterPhase \in {"ols", "naive-effect", "effect"}

showEffect(scatterPhase) == scatterPhase \in {"naive-effect", "effect"}

\* variant: the quadratic curves already in naive-effect
usePolynomial_early(scatterPhase) == scatterPhase \in {"naive-effect", "effect"}

usePolynomial(scatterPhase) == scatterPhase = "effect"

\* which estimate the annotation shows
discontinuity(scatterPhase) == IF scatterPhase = "effect" THEN "paper" ELSE "naive"

\* f with the keys of g added or overwritten
Overlay(f, g) ==
    [k \in DOMAIN f \cup DOMAIN g |-> IF k \in DOMAIN g THEN g[k] ELSE f[k]]

\* join on a single datum: enter appends the element, update re-targets it.
\* The fit lines show a curve kind of the outcome's fittedLines; the effect
\* line spans the two curves at x = 0; the label shows the chosen estimate.
renderFittedLines(layers, scatterPhase, outcome) ==
    LET line == [kind |-> IF usePolynomial(scatterPhase) THEN "poly" ELSE "linear",
                 estimate |-> "none", outcome |-> outcome]
        label == [kind |-> line.kind, estimate |-> discontinuity(scatterPhase),
                  outcome |-> outcome]
        ols == IF showOLS(scatterPhase)
               THEN [k \in {"inside-line", "outside-line"} |-> line]
               ELSE NoElements
        effect == IF showEffect(scatterPhase)
                  THEN [k \in {"effect-line", "effect-label-rect", "effect-label-text"}
                          |-> IF k = "effect-line" THEN line ELSE label]
                  ELSE NoElements
    IN  Overlay(Overlay(layers, ols), effect)

(***************************************************************************)
(* The main render effect of UnifiedViz.  It runs after every render of    *)
(* the component (neighborFeatures is a new array each time).  `last` is   *)
(* the record the previous run left in `render`.                           *)
(***************************************************************************)
Render(t, zoom, outcome, scatterPhase, prevPhase, prevOutcome, d, last) ==
    LET isOutcomeOnlyTransition == t >= Scale /\ prevOutcome # outcome
        isPhaseTransition == t >= Scale /\ prevPhase # scatterPhase
        isAtFullScatter == t >= Scale
        shouldPreserveElements == isOutcomeOnlyTransition \/ isPhaseTransition
        cleared == ClearElements(d, shouldPreserveElements, isAtFullScatter)
        morphT == MorphT(t)
        dots == IF t < MapEnd THEN cleared.dots
                ELSE renderMorph(cleared.dots, morphT, outcome, zoom,
                                 isOutcomeOnlyTransition, isPhaseTransition)
        layers == IF t >= Scale
                  THEN renderFittedLines(cleared.layers, scatterPhase, outcome)
                  ELSE cleared.layers
    IN  [dom |-> [dots |-> dots, layers |-> layers],
         prevScatterPhaseRef |-> IF t >= Scale THEN scatterPhase ELSE prevPhase,
         prevOutcomeRef |-> outcome,
         render |->
            [t |-> t, outcome |-> outcome, phase |-> scatterPhase,
             mapDrawn |-> t < MapEnd,
             morphing |-> t >= MapEnd /\ morphT < Scale,
             linesRendered |-> t >= Scale,
             morphT |-> IF t < MapEnd THEN 0 ELSE morphT,
             shouldPreserveElements |-> shouldPreserveElements,
             isOutcomeOnlyTransition |-> isOutcomeOnlyTransition,
             isPhaseTransition |-> isPhaseTransition,
             removedDots |-> DOMAIN d.dots \ (DOMAIN cleared.dots \cap DOMAIN dots),
             removedLayers |-> DOMAIN d.layers \ (DOMAIN cleared.layers \cap DOMAIN layers),
             before |-> [t |-> last.t, outcome |-> last.outcome, phase |-> last.phase]]]

\* the component re-renders with (possibly new) state and the render effect runs
ReRender(cur, outcome, scatterPhase) ==
    \E r \in {Render(cur["progress"], cur["zoom"], outcome, scatterPhase,
                      prevScatterPhaseRef, prevOutcomeRef, dom, render)} :
        /\ dom' = r.dom
        /\ prevScatterPhaseRef' = r.prevScatterPhaseRef
        /\ prevOutcomeRef' = r.prevOutcomeRef
        /\ render' = r.render

\* setCurrentOutcome(outcome) has been called with a new value and the
\* re-render it causes has not happened yet
OutcomePending == currentOutcome # props.outcome

(***************************************************************************)
(* Mount: ScrollyStory starts at step 0 (index 1 here); every useState     *)
(* takes its initial value from the props, every effect runs once.         *)
(***************************************************************************)
InitialStep == mainSteps[1]

Init ==
    LET cur == [d \in Drivers |-> Target(d, InitialStep)]
        none == [queue |-> {}, ref |-> [d \in Drivers |-> 0]]
        p == RestartAnimation("progress", cur["progress"], cur["progress"], 0, none)
        z == RestartAnimation("zoom", cur["zoom"], cur["zoom"], 0, p)
        b == RestartAnimation("border", cur["border"], cur["border"], 0, z)
        first == [t |-> cur["progress"], outcome |-> InitialStep.outcome,
                  phase |-> InitialStep.scatterPhase]
        r == Render(cur["progress"], cur["zoom"], InitialStep.outcome,
                    InitialStep.scatterPhase, InitialStep.scatterPhase,
                    InitialStep.outcome, EmptyDom, first)
    IN  /\ currentStepIndex = 1
        /\ updates = 0
        /\ now = 0
        /\ current = cur
        /\ ref = b.ref
        /\ rafQueue = b.queue
        /\ currentOutcome = InitialStep.outcome
        /\ prevScatterPhaseRef = r.prevScatterPhaseRef
        /\ prevOutcomeRef = r.prevOutcomeRef
        /\ tooltip = 0
        /\ calc = NoCalc
        /\ dom = r.dom
        /\ render = r.render

(***************************************************************************)
(* Actions.                                                                *)
(***************************************************************************)
\* scrollama reports that step idx entered: setCurrentStepIndex, UnifiedViz
\* renders with the new props, its effects run in declaration order
onStepEnter(idx) ==
    /\ updates < MaxUpdates
    /\ ~OutcomePending
    /\ idx # currentStepIndex
    /\ \E new \in {mainSteps[idx]} :
       \E st \in {RunAnimationEffects(props, new, current, now,
                                      [queue |-> rafQueue, ref |-> ref])} :
           /\ currentStepIndex' = idx
           /\ updates' = updates + 1
           /\ rafQueue' = st.queue
           /\ ref' = st.ref
           /\ ReRender(current, currentOutcome, new.scatterPhase)
    /\ UNCHANGED << now, current, currentOutcome, tooltip, calc >>

\* the re-render queued by setCurrentOutcome
OutcomeCommit ==
    /\ OutcomePending
    /\ currentOutcome' = props.outcome
    /\ ReRender(current, props.outcome, props.scatterPhase)
    /\ UNCHANGED << currentStepIndex, updates, now, current, ref, rafQueue, tooltip, calc >>

\* time between two animation frames: the regular gap, or twice that when the
\* browser skips a frame
FrameGaps == {FrameGap, 2 * FrameGap}

\* the browser delivers an animation frame some gap after the last one:
\* every pending callback runs, then React re-renders once if a state changed
AnimationFrame ==
    /\ ~OutcomePending
    /\ rafQueue # {}
    /\ \E time \in {now + gap : gap \in FrameGaps} :
       \E st \in {RunCallbacks(rafQueue, time, [queue |-> {}, ref |-> ref])} :
       \E cur \in {FrameValues(rafQueue, time, current)} :
           /\ now' = time
           /\ current' = cur
           /\ rafQueue' = st.queue
           /\ ref' = st.ref
           /\ IF cur # current
              THEN ReRender(cur, currentOutcome, props.scatterPhase)
              ELSE UNCHANGED << dom, prevScatterPhaseRef, prevOutcomeRef, render >>
    /\ UNCHANGED << currentStepIndex, updates, currentOutcome, tooltip, calc >>

\* units whose dot the pointer visits
HoverUnits == {1}

\* the dot's mousemove / mouseout listeners call onHover; when the pointer can
\* act on dots (cursor: pointer)
DotsHoverable ==
    /\ current["progress"] >= MapEnd
    /\ MorphT(current["progress"]) > MORPH_TIMING.dotFadeEnd

\* handleDistrictHover(district, event): setTooltip({...}); the listener's own
\* attr('r', 7).attr('opacity', 1) is overwritten by the render that follows
handleDistrictHover(u) ==
    /\ ~OutcomePending
    /\ DotsHoverable
    /\ u \in DOMAIN dom.dots
    /\ tooltip # u
    /\ tooltip' = u
    /\ ReRender(current, currentOutcome, props.scatterPhase)
    /\ UNCHANGED << currentStepIndex, updates, now, current, ref, rafQueue, currentOutcome, calc >>

\* handleDistrictHover(null): setTooltip(null)
handleDistrictLeave ==
    /\ ~OutcomePending
    /\ tooltip # 0
    /\ tooltip' = 0
    /\ ReRender(current, currentOutcome, props.scatterPhase)
    /\ UNCHANGED << currentStepIndex, updates, now, current, ref, rafQueue, currentOutcome, calc >>

Next ==
    \/ \E idx \in DOMAIN mainSteps : onStepEnter(idx)
    \/ OutcomeCommit
    \/ AnimationFrame
    \/ \E u \in HoverUnits : handleDistrictHover(u)
    \/ handleDistrictLeave

Spec == Init /\ [][Next]_vars

\* frames keep arriving and React performs the renders it has queued
FairSpec == Spec /\ WF_vars(AnimationFrame) /\ WF_vars(OutcomeCommit)

(***************************************************************************)
(* Properties of the animation drivers.                                    *)
(***************************************************************************)
Pending(queue, d) == {cb \in queue : cb.driver = d}

\* C1: when a step changes the target of an animated scalar, the scalar's
\* previous frame request is gone and exactly one new interpolation is pending
\* for it, which starts at the scalar's current value (the value the last frame
\* reported), at the current time, and ends at the new target.
Theorem_C1 ==
    [][\A d \in Drivers :
          Target(d, props') # Target(d, props) =>
             /\ Pending(rafQueue', d) =
                   {[handle |-> ref'[d], driver |-> d, from |-> current[d],
                     to |-> Target(d, props'), startTime |-> now]}
             /\ Pending(rafQueue', d) \cap rafQueue = {}]_vars

\* a morph-progress interpolation restarted in mid-flight: it was just scheduled
\* and starts strictly between the old start and the old target
Witness_C1 ==
    \E cb \in rafQueue :
        /\ cb.driver = "progress"
        /\ cb.startTime = now
        /\ cb.from > 0 /\ cb.from < Scale
        /\ cb.from = current["progress"]

\* C2: for each animated scalar at most one frame callback is pending; it is the
\* one whose handle the scalar's ref holds, and it belongs to the chain of the
\* current target, so no callback of a superseded chain can run.
Theorem_C2 ==
    \A d \in Drivers :
        /\ Cardinality(Pending(rafQueue, d)) <= 1
        /\ \A cb \in Pending(rafQueue, d) :
              cb.handle = ref[d] /\ cb.to = Target(d, props)

\* the zoom was retargeted in mid-flight and a single zoom callback is pending
Witness_C2 ==
    \E cb \in rafQueue :
        /\ cb.driver = "zoom"
        /\ cb.from > 0 /\ cb.from < Scale
        /\ cb.startTime > 0
        /\ Pending(rafQueue, "zoom") = {cb}

\* C9: a step that changes the target of one scalar leaves every scalar whose
\* target it does not change as it was: same current value, same ref, same
\* pending callback (start value, target, start time and handle).
Theorem_C9 ==
    [][\A d \in Drivers :
          (updates' # updates /\ Target(d, props') = Target(d, props)) =>
             /\ current'[d] = current[d]
             /\ ref'[d] = ref[d]
             /\ Pending(rafQueue', d) = Pending(rafQueue, d)]_vars

\* one scalar was just retargeted while another scalar's interpolation, started
\* earlier, is still in flight
Witness_C9 ==
    \E c1 \in rafQueue, c2 \in rafQueue :
        /\ c1.driver # c2.driver
        /\ c1.startTime = now /\ c1.from # c1.to
        /\ c2.startTime < now /\ c2.from # c2.to
        /\ now < c2.startTime + Duration(c2.driver)

(***************************************************************************)
(* Properties of the render effect.                                        *)
(***************************************************************************)
FitLines == {"inside-line", "outside-line"}

EffectAnnotation == {"effect-line", "effect-label-rect", "effect-label-text"}

Claim_C4 ==
    (render.t >= Scale /\ render.phase = "dots") => DOMAIN dom.layers = {}

\* C5: at full scatter the layers shown are a function of the phase alone: the
\* fit lines are in the document iff the phase is ols, naive-effect or effect,
\* the effect annotation iff the phase is naive-effect or effect.
Claim_C5 ==
    render.linesRendered =>
        /\ (FitLines \subseteq DOMAIN dom.layers) <=> showOLS(render.phase)
        /\ (FitLines \cap DOMAIN dom.layers # {}) <=> showOLS(render.phase)
        /\ (EffectAnnotation \subseteq DOMAIN dom.layers) <=> showEffect(render.phase)
        /\ (EffectAnnotation \cap DOMAIN dom.layers # {}) <=> showEffect(render.phase)

\* C6: at progress >= 1, in the phases that show fit lines (ols, naive-effect,
\* effect) the lines are the current outcome's quadratic curves iff the phase is
\* effect and its linear curves otherwise; the annotation's label shows the
\* naive estimate in naive-effect and the paper estimate in effect.
Theorem_C6 ==
    (render.linesRendered /\ render.phase \in {"ols", "naive-effect", "effect"}) =>
        /\ \A k \in FitLines :
              /\ k \in DOMAIN dom.layers
              /\ dom.layers[k].outcome = render.outcome
              /\ (dom.layers[k].kind = "poly") <=> (render.phase = "effect")
              /\ (dom.layers[k].kind = "linear") <=> (render.phase # "effect")
        /\ render.phase \in {"naive-effect", "effect"} =>
              \A k \in {"effect-label-rect", "effect-label-text"} :
                  /\ k \in DOMAIN dom.layers
                  /\ dom.layers[k].outcome = render.outcome
                  /\ (render.phase = "naive-effect") => dom.layers[k].estimate = "naive"
                  /\ (render.phase = "effect") => dom.layers[k].estimate = "paper"

\* the naive-effect phase rendered at full scatter after the effect phase: the
\* lines are linear again and the label shows the naive estimate
Witness_C6 ==
    /\ render.linesRendered
    /\ render.phase = "naive-effect"
    /\ render.before.phase = "effect"
    /\ render.before.t >= Scale
    /\ dom.layers["inside-line"].kind = "linear"
    /\ dom.layers["effect-label-text"].estimate = "naive"

\* C7: every render falls in exactly one region, Map iff progress < 0.3, Morph
\* iff 0.3 <= progress < 1, Scatter (the only one with fit lines and annotation)
\* iff progress >= 1; in Morph, morphT is the progress re-normalized over the
\* region: within [0,1], 0 at progress 0.3 and 1 at progress 1.
Claim_C7 ==
    /\ render.mapDrawn <=> render.t < MapEnd
    /\ render.linesRendered <=> render.t >= Scale
    /\ ~(render.mapDrawn /\ render.linesRendered)
    /\ ~render.linesRendered => DOMAIN dom.layers = {}
    /\ (~render.mapDrawn /\ ~render.linesRendered) =>
          /\ render.morphT >= 0 /\ render.morphT <= Scale
          /\ render.morphT = ((render.t - MapEnd) * Scale) \div (Scale - MapEnd)

\* C8: with frames delivered fairly, eventually and from then on no frame
\* request is pending and every scalar's value equals its target.
Theorem_C8 ==
    <>[](/\ rafQueue = {}
         /\ \A d \in Drivers : current[d] = Target(d, props))

\* all three loops have ended after a morph from the map to the full scatter
Witness_C8 ==
    /\ rafQueue = {}
    /\ updates > 0
    /\ now >= morphDuration
    /\ current["progress"] = Scale
    /\ \A d \in Drivers : current[d] = Target(d, props)

\* C10: the cx of every dot in the document lies within [0, innerWidth].
Claim_C10 ==
    \A u \in DOMAIN dom.dots : dom.dots[u].cx >= 0 /\ dom.dots[u].cx <= innerWidth

\* C11: when the morph sub-progress is 1 and the dots are positioned (no
\* outcome or phase transition), every dot is exactly at its scatter point on
\* both axes, cx = xScale(scatterX) and cy = yScale(scatterY), whatever its map
\* position, and the dots are those of the outcome's scatter data.
Theorem_C11 ==
    (/\ ~render.mapDrawn
     /\ render.morphT >= Scale
     /\ ~render.isOutcomeOnlyTransition
     /\ ~render.isPhaseTransition)
    => /\ DOMAIN dom.dots = filterScatterData(mergedData, render.outcome)
       /\ \A u \in DOMAIN dom.dots :
             /\ dom.dots[u].cx = xScale(flippedDistance(mergedData[u]))
             /\ dom.dots[u].cy = render.outcome

\* morphT has just reached 1 (progress still below 1) after a render that
\* blended map and scatter positions; a dot's map position differs from its
\* scatter position
Witness_C11 ==
    /\ ~render.mapDrawn
    /\ render.morphT = Scale
    /\ render.t < Scale
    /\ render.before.t >= MapEnd /\ MorphT(render.before.t) < Scale
    /\ \E u \in DOMAIN dom.dots :
          createProjection(current["zoom"], mergedData[u].centroidLon) # dom.dots[u].cx


-----------------------------------------------------------------------------
\* The data utilities applied to arbitrary inputs.  A behaviour of PureSpec
\* applies one utility to one input drawn from the bounded sets below and
\* records input and result in calc.

MaxUnits == 2

\* the three outcome fields of a sample unit
OutcomeSamples ==
    { [consumption |-> NULL, stunting |-> NULL, roads |-> NULL],
      [consumption |-> 5,    stunting |-> NULL, roads |-> NULL],
      [consumption |-> 0,    stunting |-> 2,    roads |-> NULL],
      [consumption |-> NULL, stunting |-> -1,   roads |-> 7],
      [consumption |-> 0,    stunting |-> NULL, roads |-> -1],
      [consumption |-> 5,    stunting |-> 2,    roads |-> 7] }

DistanceSamples == {NULL, -3, 4}

\* MergedDistrictData[] of length n; ubigeo is the position in the input
MergedInputs(n) ==
    { [i \in 1 .. n |->
          [ubigeo |-> i, distance |-> f[i].distance, isInside |-> f[i].isInside,
           consumption |-> f[i].o.consumption, stunting |-> f[i].o.stunting,
           roads |-> f[i].o.roads]] :
      f \in [1 .. n -> [distance : DistanceSamples, isInside : BOOLEAN,
                        o : OutcomeSamples]] }

\* variant: the stunting value is not rescaled
ScatterDataPoint_raw(d, outcome) ==
    [ubigeo |-> d.ubigeo, distance |-> d.distance, isInside |-> d.isInside,
     consumption |-> d.consumption, stunting |-> d.stunting, roads |-> d.roads,
     scatterX |-> flippedDistance(d),
     scatterY |-> d[outcome],
     stuntingY |-> d.stunting,
     consumptionY |-> d.consumption,
     roadsY |-> d.roads]

\* the scatter point of filterScatterData's map callback
ScatterDataPoint(d, outcome) ==
    LET rawValue == d[outcome]
        value == IF outcome = "stunting" THEN rawValue * 100 ELSE rawValue
    IN  [ubigeo |-> d.ubigeo, distance |-> d.distance, isInside |-> d.isInside,
         consumption |-> d.consumption, stunting |-> d.stunting, roads |-> d.roads,
         scatterX |-> flippedDistance(d),
         scatterY |-> value,
         stuntingY |-> IF d.stunting # NULL THEN d.stunting * 100 ELSE NULL,
         consumptionY |-> d.consumption,
         roadsY |-> d.roads]

\* variant: a zero outcome value is kept
filterScatterPoints_zero(data, outcome) ==
    LET keep(d) == d.distance # NULL /\ d[outcome] # NULL /\ d[outcome] >= 0
        kept == SelectSeq(data, keep)
    IN  [j \in DOMAIN kept |-> ScatterDataPoint(kept[j], outcome)]

\* filterScatterData as a sequence of scatter points: filter, then map
filterScatterPoints(data, outcome) ==
    LET keep(d) ==
            LET value == d[outcome]
            IN  d.distance # NULL /\ value # NULL /\ value > 0
        kept == SelectSeq(data, keep)
    IN  [j \in DOMAIN kept |-> ScatterDataPoint(kept[j], outcome)]

\* the point of getAllScatterData's map callback
AllScatterDataPoint(d) ==
    [ubigeo |-> d.ubigeo, distance |-> d.distance, isInside |-> d.isInside,
     consumption |-> d.consumption, stunting |-> d.stunting, roads |-> d.roads,
     scatterX |-> flippedDistance(d),
     scatterY |-> 0,
     stuntingY |-> IF d.stunting # NULL /\ d.stunting > 0 THEN d.stunting * 100 ELSE NULL,
     consumptionY |-> IF d.consumption # NULL /\ d.consumption > 0 THEN d.consumption ELSE NULL,
     roadsY |-> IF d.roads # NULL /\ d.roads > 0 THEN d.roads ELSE NULL]

\* variant: the distance is not looked at
getAllScatterPoints_anyDistance(data) ==
    LET keep(d) ==
            \/ (d.stunting # NULL /\ d.stunting > 0)
            \/ (d.consumption # NULL /\ d.consumption > 0)
            \/ (d.roads # NULL /\ d.roads > 0)
        kept == SelectSeq(data, keep)
    IN  [j \in DOMAIN kept |-> AllScatterDataPoint(kept[j])]

\* getAllScatterData as a sequence of points: filter, then map
getAllScatterPoints(data) ==
    LET keep(d) ==
            /\ d.distance # NULL
            /\ \/ (d.stunting # NULL /\ d.stunting > 0)
               \/ (d.consumption # NULL /\ d.consumption > 0)
               \/ (d.roads # NULL /\ d.roads > 0)
        kept == SelectSeq(data, keep)
    IN  [j \in DOMAIN kept |-> AllScatterDataPoint(kept[j])]

\* project: filterScatterData(mergedData, currentOutcome)
Project ==
    /\ calc = NoCalc
    /\ \E n \in 0 .. MaxUnits : \E data \in MergedInputs(n) : \E outcome \in OutcomeType :
          calc' = [op |-> "filterScatterData", data |-> data, outcome |-> outcome,
                   out |-> filterScatterPoints(data, outcome)]
    /\ UNCHANGED viewVars

\* projectAll: getAllScatterData(mergedData)
ProjectAll ==
    /\ calc = NoCalc
    /\ \E n \in 0 .. MaxUnits : \E data \in MergedInputs(n) :
          calc' = [op |-> "getAllScatterData", data |-> data,
                   out |-> getAllScatterPoints(data)]
    /\ UNCHANGED viewVars

\* geometry records: ubigeo, treatment flag, polygon
PolygonSamples ==
    { [ubigeo |-> 1, mita |-> 1, polygon |-> "ringA"],
      [ubigeo |-> 1, mita |-> 0, polygon |-> "ringB"],
      [ubigeo |-> 2, mita |-> 0, polygon |-> "ringC"],
      [ubigeo |-> 2, mita |-> 1, polygon |-> "ringD"] }

\* outcome records; ubigeo 3 has no geometry
DistrictDataSamples ==
    { [ubigeo |-> 1, distance |-> 4, isInside |-> FALSE,
       consumption |-> 5, stunting |-> NULL, roads |-> 7],
      [ubigeo |-> 1, distance |-> NULL, isInside |-> TRUE,
       consumption |-> NULL, stunting |-> 2, roads |-> NULL],
      [ubigeo |-> 2, distance |-> -3, isInside |-> TRUE,
       consumption |-> 0, stunting |-> 2, roads |-> 7],
      [ubigeo |-> 3, distance |-> 4, isInside |-> TRUE,
       consumption |-> 5, stunting |-> 2, roads |-> 7] }

SeqsUpTo(S, n) == UNION { [1 .. k -> S] : k \in 0 .. n }

\* outcomeMap after the forEach of Map.set: the last record of a ubigeo wins
RECURSIVE outcomeMap(_)
outcomeMap(records) ==
    IF records = << >> THEN [k \in {} |-> 0]
    ELSE LET n == Len(records)
             before == outcomeMap(SubSeq(records, 1, n - 1))
             d == records[n]
         IN  [k \in DOMAIN before \cup {d.ubigeo} |->
                 IF k = d.ubigeo THEN d ELSE before[k]]

\* the record mergeData's map callback returns for a polygon; the centroid
\* fields are computed from the polygon alone and are left out
MergedDistrictData(poly, map) ==
    LET has == poly.ubigeo \in DOMAIN map
        outcome == map[poly.ubigeo]
    IN  [ubigeo |-> poly.ubigeo,
         mita |-> poly.mita,
         polygon |-> poly.polygon,
         distance |-> IF has THEN outcome.distance ELSE NULL,
         isInside |-> IF has THEN outcome.isInside ELSE poly.mita = 1,
         consumption |-> IF has THEN outcome.consumption ELSE NULL,
         stunting |-> IF has THEN outcome.stunting ELSE NULL,
         roads |-> IF has THEN outcome.roads ELSE NULL]

\* variant: polygons without an outcome record are dropped
mergeRecords_inner(polygons, records) ==
    LET map == outcomeMap(records)
        has(poly) == poly.ubigeo \in DOMAIN map
        kept == SelectSeq(polygons, has)
    IN  [i \in DOMAIN kept |-> MergedDistrictData(kept[i], map)]

\* mergeData over arbitrary polygon and outcome files
mergeRecords(polygons, records) ==
    LET map == outcomeMap(records)
    IN  [i \in DOMAIN polygons |-> MergedDistrictData(polygons[i], map)]

\* merge: mergeData()
Merge ==
    /\ calc = NoCalc
    /\ \E polygons \in SeqsUpTo(PolygonSamples, MaxUnits) :
       \E records \in SeqsUpTo(DistrictDataSamples, MaxUnits) :
          calc' = [op |-> "mergeData", polygons |-> polygons, records |-> records,
                   out |-> mergeRecords(polygons, records)]
    /\ UNCHANGED viewVars

-----------------------------------------------------------------------------
\* The regression utilities.  Numbers are exact fractions num / den; den = 0
\* stands for a value that is not a defined number (NaN or an infinity), which
\* every later operation propagates, as IEEE arithmetic does.  Distances are
\* integer multiples of a grid of 10^-grid km and the coefficients are
\* expressed per grid unit; the grid only enters through the epsilon tests.

MaxPoints == 3
MaxSide == 2

\* 1e-10 = 10^-EpsilonExp
EpsilonExp == 10

RECURSIVE GCD(_, _)
GCD(a, b) == IF b = 0 THEN a ELSE GCD(b, a % b)

\* the fraction n / d in lowest terms with a non-negative denominator
Rat(n, d) ==
    IF d = 0 THEN [num |-> 0, den |-> 0]
    ELSE LET g == GCD(Abs(n), Abs(d))
             s == IF d < 0 THEN -1 ELSE 1
         IN  [num |-> s * (n \div g), den |-> s * (d \div g)]

Zero == Rat(0, 1)
Defined(a) == a.den # 0
\* a + b over the least common denominator
RatAdd(a, b) ==
    IF a.den = 0 \/ b.den = 0 THEN Rat(0, 0)
    ELSE LET l == (a.den \div GCD(a.den, b.den)) * b.den
         IN  Rat(a.num * (l \div a.den) + b.num * (l \div b.den), l)
RatSub(a, b) == RatAdd(a, Rat(-b.num, b.den))
RatMulInt(a, k) == Rat(a.num * k, a.den)
RatEq(a, b) == Defined(a) /\ Defined(b) /\ a.num * b.den = b.num * a.den

RECURSIVE Pow10(_)
Pow10(e) == IF e = 0 THEN 1 ELSE 10 * Pow10(e - 1)

\* Math.abs(v) < 1e-10 for v = value / 10^(degree * grid), value an integer
BelowEpsilon(value, degree, grid) ==
    IF degree * grid <= EpsilonExp THEN value = 0
    ELSE Abs(value) < Pow10(degree * grid - EpsilonExp)

RECURSIVE Sum(_)
Sum(s) == IF s = << >> THEN 0 ELSE Sum(SubSeq(s, 1, Len(s) - 1)) + s[Len(s)]

\* points.reduce((s, p) => s + p.scatterX ** i * p.scatterY ** j, 0)
PowerSum(points, i, j) ==
    LET pow(b, e) == CASE e = 0 -> 1 [] e = 1 -> b [] e = 2 -> b * b
                       [] e = 3 -> b * b * b [] e = 4 -> b * b * b * b
    IN  Sum([k \in DOMAIN points |->
                pow(points[k].scatterX, i) * pow(points[k].scatterY, j)])

\* variant: the intercept is not divided by n
calcLinearOLS_undivided(points, grid) ==
    LET n == Len(points)
        sumX == PowerSum(points, 1, 0)
        sumY == PowerSum(points, 0, 1)
        sumXY == PowerSum(points, 1, 1)
        sumX2 == PowerSum(points, 2, 0)
        denom == n * sumX2 - sumX * sumX
    IN  IF n < 2 THEN [intercept |-> Zero, slope |-> Zero]
        ELSE IF BelowEpsilon(denom, 2, grid)
             THEN [intercept |-> Rat(sumY, n), slope |-> Zero]
        ELSE [slope |-> Rat(n * sumXY - sumX * sumY, denom),
              intercept |-> Rat(sumY * denom - (n * sumXY - sumX * sumY) * sumX,
                                denom)]

\* calcLinearOLS of the utilities: y = a + b*x
calcLinearOLS(points, grid) ==
    LET n == Len(points)
        sumX == PowerSum(points, 1, 0)
        sumY == PowerSum(points, 0, 1)
        sumXY == PowerSum(points, 1, 1)
        sumX2 == PowerSum(points, 2, 0)
        denom == n * sumX2 - sumX * sumX
    IN  IF n < 2 THEN [intercept |-> Zero, slope |-> Zero]
        ELSE IF BelowEpsilon(denom, 2, grid)
             THEN [intercept |-> Rat(sumY, n), slope |-> Zero]
        ELSE [slope |-> Rat(n * sumXY - sumX * sumY, denom),
              \* (sumY - slope * sumX) / n
              intercept |-> Rat(sumY * denom - (n * sumXY - sumX * sumY) * sumX,
                                denom * n)]

\* calcLinearOLS of the chart component: no test before either division
RDDChart_calcLinearOLS(points) ==
    LET n == Len(points)
        sumX == PowerSum(points, 1, 0)
        sumY == PowerSum(points, 0, 1)
        sumXY == PowerSum(points, 1, 1)
        sumX2 == PowerSum(points, 2, 0)
        denom == n * sumX2 - sumX * sumX
    IN  [slope |-> Rat(n * sumXY - sumX * sumY, denom),
         intercept |-> Rat(sumY * denom - (n * sumXY - sumX * sumY) * sumX,
                           denom * n)]

\* variant: the determinant is not tested
calcQuadraticOLS_untested(points, grid) ==
    LET n == Len(points)
        sumX == PowerSum(points, 1, 0)
        sumX2 == PowerSum(points, 2, 0)
        sumX3 == PowerSum(points, 3, 0)
        sumX4 == PowerSum(points, 4, 0)
        sumY == PowerSum(points, 0, 1)
        sumXY == PowerSum(points, 1, 1)
        sumX2Y == PowerSum(points, 2, 1)
        det == n * (sumX2 * sumX4 - sumX3 * sumX3)
               - sumX * (sumX * sumX4 - sumX3 * sumX2)
               + sumX2 * (sumX * sumX3 - sumX2 * sumX2)
    IN  [intercept |-> Rat(sumY * (sumX2 * sumX4 - sumX3 * sumX3)
                           - sumX * (sumXY * sumX4 - sumX2Y * sumX3)
                           + sumX2 * (sumXY * sumX3 - sumX2Y * sumX2), det),
         slope |-> Rat(n * (sumXY * sumX4 - sumX2Y * sumX3)
                       - sumY * (sumX * sumX4 - sumX3 * sumX2)
                       + sumX2 * (sumX * sumX2Y - sumXY * sumX2), det),
         quadratic |-> Rat(n * (sumX2 * sumX2Y - sumX3 * sumXY)
                           - sumX * (sumX * sumX2Y - sumXY * sumX2)
                           + sumY * (sumX * sumX3 - sumX2 * sumX2), det)]

\* variant: the fallback keeps the linear intercept and drops the slope
calcQuadraticOLS_flat(points, grid) ==
    LET n == Len(points)
        linear == calcLinearOLS(points, grid)
        fallback == [intercept |-> linear.intercept, slope |-> Zero, quadratic |-> Zero]
        sumX == PowerSum(points, 1, 0)
        sumX2 == PowerSum(points, 2, 0)
        sumX3 == PowerSum(points, 3, 0)
        sumX4 == PowerSum(points, 4, 0)
        det == n * (sumX2 * sumX4 - sumX3 * sumX3)
               - sumX * (sumX * sumX4 - sumX3 * sumX2)
               + sumX2 * (sumX * sumX3 - sumX2 * sumX2)
    IN  IF n < 3 \/ BelowEpsilon(det, 6, grid) THEN fallback
        ELSE calcQuadraticOLS_untested(points, grid)

\* calcQuadraticOLS: y = a + b*x + c*x^2 by Cramer's rule
calcQuadraticOLS(points, grid) ==
    LET n == Len(points)
        linear == calcLinearOLS(points, grid)
        fallback == [intercept |-> linear.intercept, slope |-> linear.slope,
                     quadratic |-> Zero]
        sumX == PowerSum(points, 1, 0)
        sumX2 == PowerSum(points, 2, 0)
        sumX3 == PowerSum(points, 3, 0)
        sumX4 == PowerSum(points, 4, 0)
        sumY == PowerSum(points, 0, 1)
        sumXY == PowerSum(points, 1, 1)
        sumX2Y == PowerSum(points, 2, 1)
        det == n * (sumX2 * sumX4 - sumX3 * sumX3)
               - sumX * (sumX * sumX4 - sumX3 * sumX2)
               + sumX2 * (sumX * sumX3 - sumX2 * sumX2)
    IN  IF n < 3 THEN fallback
        ELSE IF BelowEpsilon(det, 6, grid) THEN fallback
        ELSE [intercept |-> Rat(sumY * (sumX2 * sumX4 - sumX3 * sumX3)
                                - sumX * (sumXY * sumX4 - sumX2Y * sumX3)
                                + sumX2 * (sumXY * sumX3 - sumX2Y * sumX2), det),
              slope |-> Rat(n * (sumXY * sumX4 - sumX2Y * sumX3)
                            - sumY * (sumX * sumX4 - sumX3 * sumX2)
                            + sumX2 * (sumX * sumX2Y - sumXY * sumX2), det),
              quadratic |-> Rat(n * (sumX2 * sumX2Y - sumX3 * sumXY)
                                - sumX * (sumX * sumX2Y - sumXY * sumX2)
                                + sumY * (sumX * sumX3 - sumX2 * sumX2), det)]

\* sample points of the regression inputs
PointSamples == [scatterX : {-1, 0, 1, 4}, scatterY : {0, 1, 2}]

\* grids of the linear fit: km, tens of metres, millimetres
LinearGrids == {0, 2, 6}

\* grids of the quadratic fit: km, tens of metres
QuadraticGrids == {0, 2}

\* fitLinear: calcLinearOLS(points)
FitLinear ==
    /\ calc = NoCalc
    /\ \E points \in SeqsUpTo(PointSamples, MaxPoints) : \E grid \in LinearGrids :
          calc' = [op |-> "calcLinearOLS", points |-> points, grid |-> grid,
                   out |-> calcLinearOLS(points, grid)]
    /\ UNCHANGED viewVars

\* the chart component's calcLinearOLS(points)
FitLinearRDDChart ==
    /\ calc = NoCalc
    /\ \E points \in SeqsUpTo(PointSamples, MaxPoints) :
          calc' = [op |-> "RDDChart.calcLinearOLS", points |-> points,
                   out |-> RDDChart_calcLinearOLS(points)]
    /\ UNCHANGED viewVars

\* fitQuadratic: calcQuadraticOLS(points)
FitQuadratic ==
    /\ calc = NoCalc
    /\ \E points \in SeqsUpTo(PointSamples, MaxPoints) : \E grid \in QuadraticGrids :
          calc' = [op |-> "calcQuadraticOLS", points |-> points, grid |-> grid,
                   out |-> calcQuadraticOLS(points, grid)]
    /\ UNCHANGED viewVars

\* PAPER_COEFFICIENTS: -0.25, 0.06, -36
PAPER_COEFFICIENTS ==
    [consumption |-> Rat(-25, 100), stunting |-> Rat(6, 100), roads |-> Rat(-36, 1)]

SetMax(S) == CHOOSE m \in S : \A x \in S : x <= m
SetMin(S) == CHOOSE m \in S : \A x \in S : m <= x

\* variant: the outside intercept is the minuend
calculateFittedLines_swapped(scatterData, outcome) ==
    LET inside(d) == d.isInside
        outside(d) == ~d.isInside
        insideLinear == calcLinearOLS(SelectSeq(scatterData, inside), 0)
        outsideLinear == calcLinearOLS(SelectSeq(scatterData, outside), 0)
    IN  [insideLineLinear |-> [x \in 0 .. 0 |-> insideLinear.intercept],
         outsideLineLinear |-> [x \in 0 .. 0 |-> outsideLinear.intercept],
         insideLinePoly |-> [x \in 0 .. 0 |-> insideLinear.intercept],
         outsideLinePoly |-> [x \in 0 .. 0 |-> outsideLinear.intercept],
         naiveDiscontinuity |-> RatSub(outsideLinear.intercept, insideLinear.intercept),
         paperDiscontinuity |-> PAPER_COEFFICIENTS[outcome]]

\* variant: the paper effect is taken from the fit
calculateFittedLines_fitted(scatterData, outcome) ==
    LET inside(d) == d.isInside
        outside(d) == ~d.isInside
        insideLinear == calcLinearOLS(SelectSeq(scatterData, inside), 0)
        outsideLinear == calcLinearOLS(SelectSeq(scatterData, outside), 0)
        naive == RatSub(insideLinear.intercept, outsideLinear.intercept)
    IN  [insideLineLinear |-> [x \in 0 .. 0 |-> insideLinear.intercept],
         outsideLineLinear |-> [x \in 0 .. 0 |-> outsideLinear.intercept],
         insideLinePoly |-> [x \in 0 .. 0 |-> insideLinear.intercept],
         outsideLinePoly |-> [x \in 0 .. 0 |-> outsideLinear.intercept],
         naiveDiscontinuity |-> naive,
         paperDiscontinuity |-> naive]

\* variant: the quadratic curves are sampled at x = 0 only
calculateFittedLines_coarse(scatterData, outcome) ==
    LET inside(d) == d.isInside
        outside(d) == ~d.isInside
        insideData == SelectSeq(scatterData, inside)
        outsideData == SelectSeq(scatterData, outside)
        insideLinear == calcLinearOLS(insideData, 0)
        outsideLinear == calcLinearOLS(outsideData, 0)
        maxInside == SetMax({insideData[i].scatterX : i \in DOMAIN insideData} \cup {0})
        minOutside == SetMin({outsideData[i].scatterX : i \in DOMAIN outsideData} \cup {0})
    IN  [insideLineLinear |->
            [x \in 0 .. maxInside |->
                RatAdd(insideLinear.intercept, RatMulInt(insideLinear.slope, x))],
         outsideLineLinear |->
            [x \in minOutside .. 0 |->
                RatAdd(outsideLinear.intercept, RatMulInt(outsideLinear.slope, x))],
         insideLinePoly |-> [x \in 0 .. 0 |-> insideLinear.intercept],
         outsideLinePoly |-> [x \in 0 .. 0 |-> outsideLinear.intercept],
         naiveDiscontinuity |-> RatSub(insideLinear.intercept, outsideLinear.intercept),
         paperDiscontinuity |-> PAPER_COEFFICIENTS[outcome]]

\* calculateFittedLines; scatterX in whole km, a curve is x |-> y over the
\* sampled x values
calculateFittedLines(scatterData, outcome) ==
    LET inside(d) == d.isInside
        outside(d) == ~d.isInside
        insideData == SelectSeq(scatterData, inside)
        outsideData == SelectSeq(scatterData, outside)
        insideLinear == calcLinearOLS(insideData, 0)
        outsideLinear == calcLinearOLS(outsideData, 0)
        insidePoly == calcQuadraticOLS(insideData, 0)
        outsidePoly == calcQuadraticOLS(outsideData, 0)
        maxInside == SetMax({insideData[i].scatterX : i \in DOMAIN insideData} \cup {0})
        minOutside == SetMin({outsideData[i].scatterX : i \in DOMAIN outsideData} \cup {0})
        paperDiscontinuity ==
            IF outcome = "stunting" THEN RatMulInt(PAPER_COEFFICIENTS[outcome], 100)
            ELSE PAPER_COEFFICIENTS[outcome]
        naiveDiscontinuity == RatSub(insideLinear.intercept, outsideLinear.intercept)
        allMean == Rat(PowerSum(scatterData, 0, 1), Len(scatterData))
        paperOutsideIntercept == allMean
        paperInsideIntercept == RatAdd(allMean, paperDiscontinuity)
    IN  [insideLineLinear |->
            [x \in 0 .. maxInside |->
                RatAdd(insideLinear.intercept, RatMulInt(insideLinear.slope, x))],
         insideLinePoly |->
            [x \in 0 .. maxInside |->
                RatAdd(RatAdd(paperInsideIntercept, RatMulInt(insidePoly.slope, x)),
                       RatMulInt(insidePoly.quadratic, x * x))],
         outsideLineLinear |->
            [x \in minOutside .. 0 |->
                RatAdd(outsideLinear.intercept, RatMulInt(outsideLinear.slope, x))],
         outsideLinePoly |->
            [x \in minOutside .. 0 |->
                RatAdd(RatAdd(paperOutsideIntercept, RatMulInt(outsidePoly.slope, x)),
                       RatMulInt(outsidePoly.quadratic, x * x))],
         naiveDiscontinuity |-> naiveDiscontinuity,
         paperDiscontinuity |-> paperDiscontinuity]

\* scatter points of one side: inside points have scatterX >= 0, outside
\* points scatterX <= 0, and scatterY > 0
InsideSamples == [scatterX : {0, 1, 2}, scatterY : {1, 3}, isInside : {TRUE}]
OutsideSamples == [scatterX : {-2, -1, 0}, scatterY : {1, 3}, isInside : {FALSE}]

\* computeEffect: calculateFittedLines(scatterData, currentOutcome)
ComputeEffect ==
    /\ calc = NoCalc
    /\ \E ins \in SeqsUpTo(InsideSamples, MaxSide) :
       \E outs \in SeqsUpTo(OutsideSamples, MaxSide) :
       \E outcome \in OutcomeType :
          calc' = [op |-> "calculateFittedLines", scatterData |-> ins \o outs,
                   outcome |-> outcome,
                   out |-> calculateFittedLines(ins \o outs, outcome)]
    /\ UNCHANGED viewVars

\* animation durations of the scenarios, ms
ScenarioDurations == {1000, morphDuration}

\* elapsed time at the frame after which the target changes, ms
ElapsedSamples == {100 * k : k \in 0 .. 12}

\* targets and start values of the scenarios
ScenarioValues == {0, Scale \div 2, Scale}

\* one frame of animate(from, to, duration) at `elapsed`, then the effect run
\* for a new target: startProgress = currentProgress
Retarget ==
    /\ calc = NoCalc
    /\ \E from \in ScenarioValues, to \in ScenarioValues, retarget \in ScenarioValues,
          duration \in ScenarioDurations, elapsed \in ElapsedSamples :
          \E value \in {Lerp(from, to, easeInOutQuad(AnimT(elapsed, duration)))} :
              calc' = [op |-> "animate", from |-> from, to |-> to,
                       duration |-> duration, elapsed |-> elapsed,
                       t |-> AnimT(elapsed, duration),
                       value |-> value,
                       next |-> [from |-> value, to |-> retarget]]
    /\ UNCHANGED viewVars

\* Number.prototype.toFixed: sign of x, then |x| rounded to `digits` decimals
toFixed(x, digits) ==
    LET p == Pow10(digits)
        n == (2 * Abs(x.num) * p + x.den) \div (2 * x.den)
    IN  (IF x.num < 0 THEN "-" ELSE "")
            \o ToString(n \div p)
            \o (IF digits = 0 THEN "" ELSE "." \o ToString(n % p))

\* (Math.exp(d) - 1) * 100 to two decimals, for the sampled log-point effects
ExpPercent(d) ==
    CASE RatEq(d, Rat(-1, 4)) -> Rat(-2212, 100)
      [] RatEq(d, Rat(-1, 250)) -> Rat(-40, 100)
      [] RatEq(d, Zero) -> Zero
      [] RatEq(d, Rat(1, 250)) -> Rat(40, 100)
      [] RatEq(d, Rat(1, 4)) -> Rat(2840, 100)

\* the label as its three parts and the template string built from them
Label(prefix, number, unit) ==
    [prefix |-> prefix, number |-> number, unit |-> unit,
     text |-> prefix \o number \o unit]

\* formatEffect of the utilities
formatEffect(d, outcome) ==
    IF outcome = "consumption"
    THEN LET pctChange == ExpPercent(d)
         IN  Label(IF pctChange.num > 0 THEN "+" ELSE "", toFixed(pctChange, 0), "%")
    ELSE IF outcome = "stunting"
    THEN Label(IF d.num > 0 THEN "+" ELSE "", toFixed(d, 1), "pp")
    ELSE Label(IF d.num > 0 THEN "+" ELSE "", toFixed(d, 0), " m/kmÂ²")

\* formatEffect of the chart component
RDDChart_formatEffect(d, outcome) ==
    IF outcome = "consumption"
    THEN LET pctChange == ExpPercent(d)
         IN  Label(IF pctChange.num > 0 THEN "+" ELSE "", toFixed(pctChange, 0), "%")
    ELSE IF outcome = "stunting"
    THEN Label(IF d.num > 0 THEN "+" ELSE "", toFixed(d, 1), "pp")
    ELSE Label(IF d.num > 0 THEN "+" ELSE "", toFixed(d, 1), " km")

\* effects to format: the paper effect of the outcome and further estimates
EffectSamples(outcome) ==
    {calculateFittedLines(<< >>, outcome).paperDiscontinuity} \cup
    CASE outcome = "consumption" ->
            {Rat(-1, 250), Zero, Rat(1, 250), Rat(1, 4)}
      [] outcome = "stunting" ->
            {Rat(-3, 2), Rat(-1, 25), Zero, Rat(1, 25), Rat(123, 10)}
      [] outcome = "roads" ->
            {Rat(-2, 5), Zero, Rat(2, 5), Rat(72, 5)}

\* formatEffect(discontinuity, currentOutcome)
FormatEffect ==
    /\ calc = NoCalc
    /\ \E outcome \in OutcomeType : \E d \in EffectSamples(outcome) :
          calc' = [op |-> "formatEffect", discontinuity |-> d, outcome |-> outcome,
                   out |-> formatEffect(d, outcome)]
    /\ UNCHANGED viewVars

\* the chart component's formatEffect()
FormatEffectRDDChart ==
    /\ calc = NoCalc
    /\ \E outcome \in OutcomeType : \E d \in EffectSamples(outcome) :
          calc' = [op |-> "RDDChart.formatEffect", discontinuity |-> d,
                   outcome |-> outcome, out |-> RDDChart_formatEffect(d, outcome)]
    /\ UNCHANGED viewVars

PureNext ==
    \/ Project
    \/ ProjectAll
    \/ Merge
    \/ FitLinear
    \/ FitLinearRDDChart
    \/ FitQuadratic
    \/ ComputeEffect
    \/ Retarget
    \/ FormatEffect
    \/ FormatEffectRDDChart

PureSpec == Init /\ [][PureNext]_vars

\* the inclusion rule of the scatter set, as the specification states it
InScatterSet(d, outcome) == d.distance # NULL /\ d[outcome] # NULL /\ d[outcome] > 0

\* C12: filterScatterData keeps a unit exactly when its distance is non-null and
\* its value for the current outcome is non-null and strictly positive; the
\* result holds exactly those units, once each, in input order.
Theorem_C12 ==
    calc.op = "filterScatterData" =>
        /\ \A i \in DOMAIN calc.data :
              InScatterSet(calc.data[i], calc.outcome)
                  <=> (\E j \in DOMAIN calc.out : calc.out[j].ubigeo = calc.data[i].ubigeo)
        /\ \A j, k \in DOMAIN calc.out :
              calc.out[j].ubigeo = calc.out[k].ubigeo => j = k
        /\ \A j, k \in DOMAIN calc.out : j < k => calc.out[j].ubigeo < calc.out[k].ubigeo
        /\ \A o \in OutcomeType :
              { p.ubigeo : p \in { filterScatterPoints(mergedData, o)[j] :
                                      j \in DOMAIN filterScatterPoints(mergedData, o) } }
                  = filterScatterData(mergedData, o)

Witness_C12 ==
    /\ calc.op = "filterScatterData"
    /\ Len(calc.data) = 2
    /\ Len(calc.out) = 1
    /\ calc.out[1].ubigeo = 2
    /\ calc.data[1].distance # NULL
    /\ calc.data[1][calc.outcome] = 0

\* C13: every point of filterScatterData and getAllScatterData has
\* scatterX = |distance| when the unit is inside and -|distance| otherwise,
\* whatever the sign of the stored distance.
Theorem_C13 ==
    calc.op \in {"filterScatterData", "getAllScatterData"} =>
        \A j \in DOMAIN calc.out :
            LET p == calc.out[j]
            IN  /\ p.isInside => p.scatterX = Abs(p.distance) /\ p.scatterX >= 0
                /\ ~p.isInside => p.scatterX = -Abs(p.distance) /\ p.scatterX <= 0
                /\ \E i \in DOMAIN calc.data :
                      /\ calc.data[i].ubigeo = p.ubigeo
                      /\ calc.data[i].distance = p.distance
                      /\ calc.data[i].isInside = p.isInside

Witness_C13 ==
    /\ calc.op = "getAllScatterData"
    /\ \E j, k \in DOMAIN calc.out :
          /\ calc.out[j].isInside /\ calc.out[j].distance = -3 /\ calc.out[j].scatterX = 3
          /\ ~calc.out[k].isInside /\ calc.out[k].distance = 4 /\ calc.out[k].scatterX = -4

\* some outcome field is non-null and strictly positive
AnyOutcome(d) ==
    \E o \in OutcomeType : d[o] # NULL /\ d[o] > 0

\* C14 as stated: getAllScatterData includes a unit exactly when at least one
\* of its three outcome fields is non-null and strictly positive.
Claim_C14 ==
    calc.op = "getAllScatterData" =>
        \A i \in DOMAIN calc.data :
            AnyOutcome(calc.data[i])
                <=> (\E j \in DOMAIN calc.out : calc.out[j].ubigeo = calc.data[i].ubigeo)

\* C14: getAllScatterData includes a unit exactly when its distance is non-null
\* and at least one of its three outcome fields is non-null and strictly
\* positive; a unit with a positive outcome but no distance is left out.
Theorem_C14 ==
    calc.op = "getAllScatterData" =>
        /\ \A i \in DOMAIN calc.data :
              (calc.data[i].distance # NULL /\ AnyOutcome(calc.data[i]))
                  <=> (\E j \in DOMAIN calc.out : calc.out[j].ubigeo = calc.data[i].ubigeo)
        /\ \A j, k \in DOMAIN calc.out :
              calc.out[j].ubigeo = calc.out[k].ubigeo => j = k

Witness_C14 ==
    /\ calc.op = "getAllScatterData"
    /\ Len(calc.data) = 2
    /\ calc.data[1].distance = NULL /\ AnyOutcome(calc.data[1])
    /\ calc.data[2].distance # NULL /\ AnyOutcome(calc.data[2])
    /\ Len(calc.out) = 1 /\ calc.out[1].ubigeo = 2

\* C15: mergeData returns one unit per geometry record, in the same order, with
\* that record's ubigeo, treatment flag and polygon; a geometry record without
\* an outcome record gets null distance and null outcomes; an outcome record
\* without a geometry record produces no unit.
Theorem_C15 ==
    calc.op = "mergeData" =>
        /\ Len(calc.out) = Len(calc.polygons)
        /\ \A i \in DOMAIN calc.polygons :
              /\ calc.out[i].ubigeo = calc.polygons[i].ubigeo
              /\ calc.out[i].mita = calc.polygons[i].mita
              /\ calc.out[i].polygon = calc.polygons[i].polygon
              /\ (\A k \in DOMAIN calc.records :
                      calc.records[k].ubigeo # calc.polygons[i].ubigeo)
                     => /\ calc.out[i].distance = NULL
                        /\ calc.out[i].consumption = NULL
                        /\ calc.out[i].stunting = NULL
                        /\ calc.out[i].roads = NULL
        /\ \A k \in DOMAIN calc.records :
              (\A i \in DOMAIN calc.polygons :
                   calc.polygons[i].ubigeo # calc.records[k].ubigeo)
                  => \A i \in DOMAIN calc.out : calc.out[i].ubigeo # calc.records[k].ubigeo

Witness_C15 ==
    /\ calc.op = "mergeData"
    /\ Len(calc.polygons) = 2 /\ Len(calc.records) = 2
    /\ calc.polygons[1].ubigeo = 2 /\ calc.polygons[2].ubigeo = 1
    /\ calc.records[1].ubigeo = 3 /\ calc.records[2].ubigeo = 1
    /\ calc.out[1].distance = NULL /\ calc.out[1].stunting = NULL
    /\ calc.out[2].distance = 4

Mean(points) == Rat(PowerSum(points, 0, 1), Len(points))

\* n * Sum(x^2) - (Sum x)^2, in grid units
Denominator(points) ==
    Len(points) * PowerSum(points, 2, 0) - PowerSum(points, 1, 0) * PowerSum(points, 1, 0)

\* C16 as stated: a linear fit never divides by a near-zero denominator; when
\* n < 2 or the denominator is below epsilon it returns slope 0 and the mean of
\* y as intercept (0 when there are no points), a single point included.
Claim_C16 ==
    calc.op \in {"calcLinearOLS", "RDDChart.calcLinearOLS"} =>
        LET grid == IF calc.op = "calcLinearOLS" THEN calc.grid ELSE 0
            n == Len(calc.points)
        IN  /\ Defined(calc.out.slope) /\ Defined(calc.out.intercept)
            /\ (n < 2 \/ BelowEpsilon(Denominator(calc.points), 2, grid))
                  => /\ RatEq(calc.out.slope, Zero)
                     /\ RatEq(calc.out.intercept,
                              IF n = 0 THEN Zero ELSE Mean(calc.points))

\* the three x values are pairwise distinct
DistinctX(points) ==
    \A i, j \in DOMAIN points : i # j => points[i].scatterX # points[j].scatterX

\* all points lie on y = a + b * x
OnLine(points, a, b) ==
    \A i \in DOMAIN points : points[i].scatterY = a + b * points[i].scatterX

\* (y2 - y1)(x3 - x1) = (y3 - y1)(x2 - x1)
Collinear3(points) ==
    (points[2].scatterY - points[1].scatterY) * (points[3].scatterX - points[1].scatterX)
        = (points[3].scatterY - points[1].scatterY) * (points[2].scatterX - points[1].scatterX)

\* determinant of the normal equations of three points: the squared product of
\* the pairwise x differences
Vandermonde3(points) ==
    LET d12 == points[1].scatterX - points[2].scatterX
        d13 == points[1].scatterX - points[3].scatterX
        d23 == points[2].scatterX - points[3].scatterX
    IN  (d12 * d13 * d23) * (d12 * d13 * d23)

\* intercept + slope * x + quadratic * x^2
CurveAt(c, x) ==
    RatAdd(RatAdd(c.intercept, RatMulInt(c.slope, x)), RatMulInt(c.quadratic, x * x))

Interpolates(c, points) ==
    \A i \in DOMAIN points :
        RatEq(CurveAt(c, points[i].scatterX), Rat(points[i].scatterY, 1))

\* C18 as stated: on exactly 3 non-collinear points with pairwise distinct x
\* the quadratic fit passes through all 3 points.
Claim_C18 ==
    (/\ calc.op = "calcQuadraticOLS"
     /\ Len(calc.points) = 3
     /\ DistinctX(calc.points)
     /\ ~Collinear3(calc.points))
    => Interpolates(calc.out, calc.points)

\* C18: on exactly 3 non-collinear points with pairwise distinct x whose
\* determinant (the squared product of the pairwise x differences) is at least
\* epsilon, the quadratic fit passes through all 3 points with zero residual;
\* below epsilon the result is the linear fit with quadratic 0.
Theorem_C18 ==
    (/\ calc.op = "calcQuadraticOLS"
     /\ Len(calc.points) = 3
     /\ DistinctX(calc.points)
     /\ ~Collinear3(calc.points))
    => IF BelowEpsilon(Vandermonde3(calc.points), 6, calc.grid)
       THEN /\ RatEq(calc.out.quadratic, Zero)
            /\ calc.out.slope = calcLinearOLS(calc.points, calc.grid).slope
            /\ calc.out.intercept = calcLinearOLS(calc.points, calc.grid).intercept
       ELSE Interpolates(calc.out, calc.points)

Witness_C18 ==
    /\ calc.op = "calcQuadraticOLS"
    /\ Len(calc.points) = 3
    /\ DistinctX(calc.points)
    /\ ~Collinear3(calc.points)
    /\ calc.grid = 2
    /\ ~BelowEpsilon(Vandermonde3(calc.points), 6, calc.grid)
    /\ ~RatEq(calc.out.quadratic, Zero)
    /\ Interpolates(calc.out, calc.points)

\* all points have the same x
SharedX(points) ==
    \A i, j \in DOMAIN points : points[i].scatterX = points[j].scatterX

LineCoefficients == -5 .. 5

\* C19 as stated: points exactly on y = a + b*x with at least two distinct x
\* give slope b and intercept a; two or more points sharing one x give slope 0.
Claim_C19 ==
    calc.op = "calcLinearOLS" =>
        /\ \A a, b \in LineCoefficients :
              (OnLine(calc.points, a, b) /\ ~SharedX(calc.points))
                  => /\ RatEq(calc.out.slope, Rat(b, 1))
                     /\ RatEq(calc.out.intercept, Rat(a, 1))
        /\ (Len(calc.points) >= 2 /\ SharedX(calc.points))
              => RatEq(calc.out.slope, Zero) /\ Defined(calc.out.intercept)

\* C19: points exactly on y = a + b*x whose denominator n*Sum(x^2) - (Sum x)^2
\* is at least epsilon give slope b and intercept a; two or more points whose
\* denominator is below epsilon, in particular points sharing one x, give
\* slope 0 and the mean of y without failing.
Theorem_C19 ==
    calc.op = "calcLinearOLS" =>
        /\ \A a, b \in LineCoefficients :
              (OnLine(calc.points, a, b)
                  /\ ~BelowEpsilon(Denominator(calc.points), 2, calc.grid))
                  => /\ RatEq(calc.out.slope, Rat(b, 1))
                     /\ RatEq(calc.out.intercept, Rat(a, 1))
        /\ (Len(calc.points) >= 2 /\ BelowEpsilon(Denominator(calc.points), 2, calc.grid))
              => /\ RatEq(calc.out.slope, Zero)
                 /\ RatEq(calc.out.intercept, Mean(calc.points))

Witness_C19 ==
    /\ calc.op = "calcLinearOLS"
    /\ Len(calc.points) = 3
    /\ OnLine(calc.points, 1, 1)
    /\ ~BelowEpsilon(Denominator(calc.points), 2, calc.grid)
    /\ RatEq(calc.out.slope, Rat(1, 1))
    /\ RatEq(calc.out.intercept, Rat(1, 1))

InsideData(scatterData) ==
    LET inside(d) == d.isInside IN SelectSeq(scatterData, inside)

OutsideData(scatterData) ==
    LET outside(d) == ~d.isInside IN SelectSeq(scatterData, outside)

\* the four curves of a FittedLines value
Curves(lines) ==
    {lines.insideLineLinear, lines.outsideLineLinear,
     lines.insideLinePoly, lines.outsideLinePoly}

\* the naive effect, the paper effect and every curve sample are defined numbers
AllDefined(lines) ==
    /\ Defined(lines.naiveDiscontinuity)
    /\ Defined(lines.paperDiscontinuity)
    /\ \A c \in Curves(lines) : \A x \in DOMAIN c : Defined(c[x])

\* an empty scatter set, a side with no points or a side with a single point
DegenerateInput(scatterData) ==
    \/ Len(InsideData(scatterData)) <= 1
    \/ Len(OutsideData(scatterData)) <= 1

\* C17 as stated: calculateFittedLines absorbs every degenerate input: for an
\* empty scatter set, a side with no points or a side with a single point, the
\* naive effect, the paper effect and every curve sample are defined numbers.
Claim_C17 ==
    (calc.op = "calculateFittedLines" /\ DegenerateInput(calc.scatterData))
        => AllDefined(calc.out)

\* C20 as stated: the naive effect is the inside linear intercept minus the
\* outside linear intercept, and for data generated by one line per side it is
\* the difference of the generating intercepts.
Claim_C20 ==
    calc.op = "calculateFittedLines" =>
        LET ins == InsideData(calc.scatterData)
            outs == OutsideData(calc.scatterData)
        IN  /\ calc.out.naiveDiscontinuity
                  = RatSub(calcLinearOLS(ins, 0).intercept, calcLinearOLS(outs, 0).intercept)
            /\ (ins # << >> /\ outs # << >>) =>
                  \A aIn, bIn \in LineCoefficients :
                      OnLine(ins, aIn, bIn) =>
                          \A aOut, bOut \in LineCoefficients :
                              OnLine(outs, aOut, bOut) =>
                                  RatEq(calc.out.naiveDiscontinuity, Rat(aIn - aOut, 1))

\* C20: the naive effect is the inside linear intercept minus the outside
\* linear intercept, which is also the gap between the two linear curves at
\* x = 0; for data generated by one line per side with at least two distinct x
\* values on each side it is the difference of the generating intercepts.
Theorem_C20 ==
    calc.op = "calculateFittedLines" =>
        LET ins == InsideData(calc.scatterData)
            outs == OutsideData(calc.scatterData)
        IN  /\ calc.out.naiveDiscontinuity
                  = RatSub(calcLinearOLS(ins, 0).intercept, calcLinearOLS(outs, 0).intercept)
            /\ RatEq(calc.out.naiveDiscontinuity,
                     RatSub(calc.out.insideLineLinear[0], calc.out.outsideLineLinear[0]))
            /\ (~SharedX(ins) /\ ~SharedX(outs)) =>
                  \A aIn, bIn \in LineCoefficients :
                      OnLine(ins, aIn, bIn) =>
                          \A aOut, bOut \in LineCoefficients :
                              OnLine(outs, aOut, bOut) =>
                                  RatEq(calc.out.naiveDiscontinuity, Rat(aIn - aOut, 1))

Witness_C20 ==
    /\ calc.op = "calculateFittedLines"
    /\ ~SharedX(InsideData(calc.scatterData))
    /\ ~SharedX(OutsideData(calc.scatterData))
    /\ OnLine(InsideData(calc.scatterData), 3, -2)
    /\ OnLine(OutsideData(calc.scatterData), 5, 2)
    /\ RatEq(calc.out.naiveDiscontinuity, Rat(-2, 1))

\* C21: the paper effect returned by calculateFittedLines depends only on the
\* outcome, never on the data: it is the constant of PAPER_COEFFICIENTS
\* (consumption -0.25, stunting 0.06 rescaled by 100, roads -36), the same as
\* for the empty scatter set and for any other scatter set.
Theorem_C21 ==
    calc.op = "calculateFittedLines" =>
        /\ RatEq(calc.out.paperDiscontinuity,
                 CASE calc.outcome = "consumption" -> Rat(-1, 4)
                   [] calc.outcome = "stunting" -> Rat(6, 1)
                   [] calc.outcome = "roads" -> Rat(-36, 1))
        /\ \A other \in {<< >>, <<[scatterX |-> 2, scatterY |-> 3, isInside |-> TRUE]>>} :
              calculateFittedLines(other, calc.outcome).paperDiscontinuity
                  = calc.out.paperDiscontinuity

Witness_C21 ==
    /\ calc.op = "calculateFittedLines"
    /\ calc.outcome = "stunting"
    /\ Len(calc.scatterData) = 4
    /\ RatEq(calc.out.naiveDiscontinuity, Rat(2, 1))
    /\ RatEq(calc.out.paperDiscontinuity, Rat(6, 1))

\* the factor applied to stored values of an outcome
RescaleFactor(outcome) == IF outcome = "stunting" THEN 100 ELSE 1

\* C22: rescaling is the same for an outcome and its paper effect: the scatter
\* y value of filterScatterData and the paper effect of calculateFittedLines
\* are the stored value times 100 for stunting and the stored value itself for
\* consumption and roads.
Theorem_C22 ==
    /\ calc.op = "filterScatterData" =>
          \A j \in DOMAIN calc.out :
              \E i \in DOMAIN calc.data :
                  /\ calc.data[i].ubigeo = calc.out[j].ubigeo
                  /\ calc.out[j].scatterY
                        = calc.data[i][calc.outcome] * RescaleFactor(calc.outcome)
    /\ calc.op = "calculateFittedLines" =>
          RatEq(calc.out.paperDiscontinuity,
                RatMulInt(PAPER_COEFFICIENTS[calc.outcome], RescaleFactor(calc.outcome)))

Witness_C22 ==
    /\ calc.op = "filterScatterData"
    /\ calc.outcome = "stunting"
    /\ \E j \in DOMAIN calc.out :
          calc.out[j].stunting = 2 /\ calc.out[j].scatterY = 200
    /\ RatEq(calculateFittedLines(<< >>, calc.outcome).paperDiscontinuity, Rat(6, 1))

\* the scatterX values of a sequence of points
XValues(points) == {points[i].scatterX : i \in DOMAIN points}

\* C23: on each side the linear and the quadratic curve have the same samples:
\* the same count and the same x at every index; the inside curves cover 0 up
\* to the largest inside x, the outside curves the smallest outside x up to 0,
\* in steps of 1, and all of them contain x = 0.
Theorem_C23 ==
    calc.op = "calculateFittedLines" =>
        LET maxInside == SetMax(XValues(InsideData(calc.scatterData)) \cup {0})
            minOutside == SetMin(XValues(OutsideData(calc.scatterData)) \cup {0})
        IN  /\ DOMAIN calc.out.insideLineLinear = 0 .. maxInside
            /\ DOMAIN calc.out.insideLinePoly = 0 .. maxInside
            /\ DOMAIN calc.out.outsideLineLinear = minOutside .. 0
            /\ DOMAIN calc.out.outsideLinePoly = minOutside .. 0
            /\ \A c \in Curves(calc.out) : 0 \in DOMAIN c

Witness_C23 ==
    /\ calc.op = "calculateFittedLines"
    /\ DOMAIN calc.out.insideLinePoly = 0 .. 2
    /\ DOMAIN calc.out.outsideLinePoly = -1 .. 0
    /\ DOMAIN calc.out.insideLineLinear = DOMAIN calc.out.insideLinePoly
    /\ DOMAIN calc.out.outsideLineLinear = DOMAIN calc.out.outsideLinePoly

\* the line joining the two curves at x = 0 in a phase that shows the effect
GapDrawn(lines, scatterPhase) ==
    IF usePolynomial(scatterPhase)
    THEN RatSub(lines.insideLinePoly[0], lines.outsideLinePoly[0])
    ELSE RatSub(lines.insideLineLinear[0], lines.outsideLineLinear[0])

\* the estimate the label shows in a phase that shows the effect
EffectShown(lines, scatterPhase) ==
    IF discontinuity(scatterPhase) = "paper" THEN lines.paperDiscontinuity
    ELSE lines.naiveDiscontinuity

\* C28 as stated: the quadratic curve at x = 0 is the grand mean of all scatter
\* y values on the outside and the grand mean plus the paper effect on the
\* inside; the gap drawn at x = 0 equals the paper effect in the effect phase
\* and the naive effect in the naive-effect phase.
Claim_C28 ==
    calc.op = "calculateFittedLines" =>
        /\ RatEq(calc.out.outsideLinePoly[0], Mean(calc.scatterData))
        /\ RatEq(calc.out.insideLinePoly[0],
                 RatAdd(Mean(calc.scatterData), calc.out.paperDiscontinuity))
        /\ \A scatterPhase \in {"naive-effect", "effect"} :
              RatEq(GapDrawn(calc.out, scatterPhase), EffectShown(calc.out, scatterPhase))

\* normal-equations determinant of the quadratic fit
NormalDeterminant(points) ==
    LET n == Len(points)
        sumX == PowerSum(points, 1, 0)
        sumX2 == PowerSum(points, 2, 0)
        sumX3 == PowerSum(points, 3, 0)
        sumX4 == PowerSum(points, 4, 0)
    IN  n * (sumX2 * sumX4 - sumX3 * sumX3)
        - sumX * (sumX * sumX4 - sumX3 * sumX2)
        + sumX2 * (sumX * sumX3 - sumX2 * sumX2)

\* C29: with fewer than 3 points, or with a determinant below epsilon (in
\* particular with fewer than 3 distinct x values), calcQuadraticOLS returns
\* exactly the intercept and slope of calcLinearOLS on the same points, and
\* quadratic = 0.
Theorem_C29 ==
    (/\ calc.op = "calcQuadraticOLS"
     /\ \/ Len(calc.points) < 3
        \/ BelowEpsilon(NormalDeterminant(calc.points), 6, calc.grid)
        \/ Cardinality(XValues(calc.points)) < 3)
    => /\ calc.out.intercept = calcLinearOLS(calc.points, calc.grid).intercept
       /\ calc.out.slope = calcLinearOLS(calc.points, calc.grid).slope
       /\ calc.out.quadratic = Zero

Witness_C29 ==
    /\ calc.op = "calcQuadraticOLS"
    /\ Len(calc.points) = 3
    /\ Cardinality(XValues(calc.points)) = 3
    /\ NormalDeterminant(calc.points) > 0
    /\ BelowEpsilon(NormalDeterminant(calc.points), 6, calc.grid)
    /\ ~RatEq(calc.out.slope, Zero)
    /\ calc.out.quadratic = Zero

\* animate(0, 1, 1000 ms), retargeted to 0.5 after 100 ms
Scenario_C24 ==
    /\ calc.op = "animate"
    /\ calc.from = 0 /\ calc.to = Scale
    /\ calc.duration = 1000 /\ calc.elapsed = 100
    /\ calc.next.to = Scale \div 2

\* C24 as stated: in the scenario the value reported at 100 ms is about 0.19
\* and the second interpolation starts from that value toward 0.5.
Claim_C24 ==
    Scenario_C24 =>
        /\ 18 * Scale <= 100 * calc.value /\ 100 * calc.value <= 20 * Scale
        /\ calc.next.from = calc.value
        /\ calc.next.to = Scale \div 2

\* C24: in the scenario the value reported at 100 ms under the ease-in-out
\* quadratic curve is 2 * 0.1^2 = 0.02, and the second interpolation starts
\* from that value toward 0.5, not from 0 or 1.
Theorem_C24 ==
    Scenario_C24 =>
        /\ calc.t = Scale \div 10
        /\ 50 * calc.value = Scale
        /\ calc.next.from = calc.value
        /\ calc.next.from # calc.from /\ calc.next.from # calc.to
        /\ calc.next.to = Scale \div 2

Witness_C24 ==
    /\ Scenario_C24
    /\ calc.value = 20
    /\ calc.next = [from |-> 20, to |-> 500]

\* the value a label displays: the percent change for consumption, the effect
\* itself for the other outcomes
DisplayedValue(d, outcome) == IF outcome = "consumption" THEN ExpPercent(d) ELSE d

\* C25 as stated: the label has a '+' prefix exactly when the displayed value
\* is positive; for stunting it is the rescaled value with one decimal and
\* 'pp', so the paper coefficient 0.06 gives '+6.0pp'; roads -36 gives
\* '-36 m/km²'.
Claim_C25 ==
    calc.op \in {"formatEffect", "RDDChart.formatEffect"} =>
        /\ calc.out.prefix = "+" <=> DisplayedValue(calc.discontinuity, calc.outcome).num > 0
        /\ calc.out.prefix \in {"+", ""}
        /\ calc.outcome = "stunting" =>
              calc.out.text = calc.out.prefix \o toFixed(calc.discontinuity, 1) \o "pp"
        /\ (calc.outcome = "stunting"
               /\ calc.discontinuity = RatMulInt(PAPER_COEFFICIENTS["stunting"], 100))
              => calc.out.text = "+6.0pp"
        /\ (calc.outcome = "roads" /\ calc.discontinuity = PAPER_COEFFICIENTS["roads"])
              => calc.out.text = "-36 m/km²"

\* C26 as stated: whenever a render completes with progress >= 1 there is a
\* dot for every unit of the current outcome's scatter set, each at (or
\* transitioning to) its scatter position with full radius, also when the
\* phase or the outcome differs from the recorded one in the render in which
\* progress first reaches 1.
Claim_C26 ==
    render.t >= Scale =>
        \A u \in filterScatterData(mergedData, render.outcome) :
            /\ u \in DOMAIN dom.dots
            /\ dom.dots[u].cx = xScale(flippedDistance(mergedData[u]))
            /\ dom.dots[u].cy = render.outcome
            /\ dom.dots[u].r = 5 * Scale

\* C27 as stated: shouldPreserveElements is true in a render iff progress >= 1
\* in that render and the outcome or the phase differs from its value at the
\* immediately preceding render; it is false when only the progress changed.
Claim_C27 ==
    render.shouldPreserveElements
        <=> /\ render.t >= Scale
            /\ \/ render.outcome # render.before.outcome
               \/ render.phase # render.before.phase

(***************************************************************************)
(* Range of the animated scalars.                                          *)
(***************************************************************************)
\* v lies between a and b, in either order
Between(v, a, b) ==
    \/ (a <= v /\ v <= b)
    \/ (b <= v /\ v <= a)

Distance(a, b) == IF a >= b THEN a - b ELSE b - a

\* every scalar with an interpolation in flight is between that
\* interpolation's start value and its target
WithinAnimation ==
    \A cb \in rafQueue : Between(current[cb.driver], cb.from, cb.to)

\* a frame of an interpolation that was pending before it does not take the
\* scalar further from the interpolation's target
NoRetreat ==
    now' # now =>
        \A cb \in rafQueue :
            /\ Distance(current'[cb.driver], cb.to) <= Distance(current[cb.driver], cb.to)
            /\ Between(current'[cb.driver], cb.from, cb.to)

UnitRange == \A d \in Drivers : current[d] \in 0 .. Scale

\* C30: each animated scalar (morph progress, zoom, border opacity) always lies
\* between the start value and the target of its current interpolation: it
\* never overshoots, successive frames of one interpolation never move it away
\* from the target, and so all three scalars stay within [0, 1].
Theorem_C30 ==
    /\ [](WithinAnimation /\ UnitRange)
    /\ [][NoRetreat]_vars

\* the morph progress, retargeted downwards in mid-flight, has since moved
\* part of the way from its start value to the new target
Witness_C30 ==
    \E cb \in rafQueue :
        /\ cb.driver = "progress"
        /\ cb.from < Scale /\ cb.to < cb.from
        /\ cb.startTime < now
        /\ cb.to < current["progress"] /\ current["progress"] < cb.from
====
